---- MODULE Spec2Model ----
(***************************************************************************)
(* Model of the watch supervisor of subprocess/src/main.rs: a registry of  *)
(* watches behind one mutex, a command loop that mutates the registry and  *)
(* the subscriptions of the OS watch handle, and a notification thread     *)
(* that drains the channel of debounced events and classifies every event  *)
(* against every registered watch.                                         *)
(***************************************************************************)
EXTENDS Integers, Sequences, FiniteSets, TLC

(***************************************************************************)
(* Bounds of the model.                                                    *)
(***************************************************************************)
MaxInputs == 5    \* stdin lines read plus raw events delivered in one run

WatchIds == {1, 2}

(***************************************************************************)
(* Paths.  A path is the sequence of its components below the filesystem   *)
(* root ("/a/sub" is <<"a", "sub">>).  A verbatim (extended-length) path   *)
(* carries the marker component VerbatimPrefix in front.                   *)
(***************************************************************************)
VerbatimPrefix == "\\\\?\\"

\* The roots the Watch commands of the command stream name, as written by
\* the caller.
RootArgs == {"/link", "/a/sub", "/missing"}

\* The directories of the model, as canonical paths.
Directories == {<<"a">>, <<"a", "sub">>, <<"b">>}

\* The paths the OS source reports.
EventPaths ==
    {<<"a", "x">>, <<"a", "y">>, <<"a", "sub">>, <<"a", "sub", "f">>,
     <<"b", "x">>}

\* std::path::Path::starts_with: base is a prefix of path, compared one
\* whole component at a time.
RECURSIVE starts_with(_, _)
starts_with(path, base) ==
    IF base = <<>> THEN TRUE
    ELSE IF path = <<>> THEN FALSE
    ELSE IF Head(path) # Head(base) THEN FALSE
    ELSE starts_with(Tail(path), Tail(base))

\* fs::canonicalize over the directory tree of the model: /a, /a/sub and /b
\* are directories, /link is a symbolic link to /a, nothing else exists.
canonicalize(root) ==
    CASE root = "/a"     -> [ok |-> TRUE, path |-> <<"a">>]
      [] root = "/link"  -> [ok |-> TRUE, path |-> <<"a">>]
      [] root = "/a/sub" -> [ok |-> TRUE, path |-> <<"a", "sub">>]
      [] root = "/b"     -> [ok |-> TRUE, path |-> <<"b">>]
      [] OTHER           -> [ok |-> FALSE, description |-> "entity not found"]

\* dunce::simplified: drops the verbatim prefix of a path when it has one
\* and returns any other path as it is.
simplified(path) ==
    IF path # <<>> /\ Head(path) = VerbatimPrefix THEN Tail(path) ELSE path

(***************************************************************************)
(* Messages.                                                               *)
(***************************************************************************)
\* enum Request
RequestWatch(id, root) == [type |-> "watch", id |-> id, root |-> root]
RequestUnwatch(id) == [type |-> "unwatch", id |-> id]
Requests ==
    {RequestWatch(id, root) : id \in WatchIds, root \in RootArgs}
        \cup {RequestUnwatch(id) : id \in WatchIds}
NoRequest == [type |-> "none"]

\* enum Response
ResponseOk(id) == [type |-> "ok", id |-> id]
ResponseError(id, description) ==
    [type |-> "error", id |-> id, description |-> description]

AlreadyRegistered(id) == "Already registered a watch with id " \o ToString(id)
NoWatchExists(id) == "No watch exists with id " \o ToString(id)
WatchFailed == "watch failed"

\* enum Event with its constructors
modified(watch_id, path) ==
    [action |-> "modified", watchId |-> watch_id, path |-> simplified(path)]
created(watch_id, path) ==
    [action |-> "created", watchId |-> watch_id, path |-> simplified(path)]
deleted(watch_id, path) ==
    [action |-> "deleted", watchId |-> watch_id, path |-> simplified(path)]
renamed(watch_id, old_path, new_path) ==
    [action |-> "renamed", watchId |-> watch_id,
     path |-> simplified(new_path), oldPath |-> simplified(old_path)]

\* notify::DebouncedEvent: the variant and the paths it carries, in order.
DebouncedEvent(kind, paths) == [kind |-> kind, paths |-> paths]
PrimitiveKinds == {"Create", "Write", "Remove"}
NoticeKinds == {"NoticeWrite", "NoticeRemove", "Chmod"}
RawEvents ==
    {DebouncedEvent(k, <<p>>) : k \in PrimitiveKinds \cup NoticeKinds,
                                p \in EventPaths}
        \cup {DebouncedEvent("Rename", <<pq[1], pq[2]>>) :
                  pq \in {xy \in EventPaths \X EventPaths : xy[1] # xy[2]}}
        \cup {DebouncedEvent("Rescan", <<>>), DebouncedEvent("Error", <<>>)}
        \cup {DebouncedEvent("Error", <<p>>) : p \in EventPaths}
NoEvent == DebouncedEvent("None", <<>>)

\* The raw events the OS source delivers while commands are being handled.
DeliveredEvents ==
    {DebouncedEvent("Create", <<<<"a", "x">>>>),
     DebouncedEvent("Rename", <<<<"a", "sub", "f">>, <<"a", "x">>>>),
     DebouncedEvent("NoticeWrite", <<<<"a", "sub", "f">>>>)}

\* struct Watch
Watch(id, root) == [id |-> id, root |-> root]
NoWatch == Watch(0, <<>>)

\* The OS watch handle (notify::Watcher) as the set of roots it is subscribed
\* to: watch adds the root, unwatch removes it and fails on a root that is
\* not subscribed.
watcher_watch(subscriptions, path) == subscriptions \cup {path}
watcher_unwatch(subscriptions, path) ==
    [ok |-> path \in subscriptions, watcher |-> subscriptions \ {path}]

\* fn emit_json: one line appended to standard output.
emit_json(stdout, message) == Append(stdout, message)

(***************************************************************************)
(* State.                                                                  *)
(***************************************************************************)
VARIABLES
    watches,     \* Supervisor.watches: the registry, WatchId -> Watch
    watcher,     \* Supervisor.watcher: the roots subscribed with the OS handle
    mutex,       \* owner of the registry lock: "none", "main" or "notify"
    rx,          \* the channel of raw events, OS source -> notification thread
    stdout,      \* the lines written to standard output, oldest first
    pc,          \* position of the command loop (main thread)
    request,     \* the command being handled
    root,        \* the canonical root of the Watch command being handled
    removed,     \* the watch taken out of the registry by Unwatch
    npc,         \* position of the notification thread
    event,       \* the raw event being dispatched
    values,      \* the watches the dispatch loop has still to visit
    inputs,      \* stdin lines read and raw events delivered so far
    before,      \* registry, subscriptions and output length at lock time
    batch,       \* output length when the current dispatch took the lock
    previous,    \* the command completed last, with its state before
    commands,    \* type and id of the command lines read so far, in order
    delivered    \* the raw events the OS source has sent so far, in order

vars == <<watches, watcher, mutex, rx, stdout, pc, request, root, removed,
          npc, event, values, inputs, before, batch, previous, commands,
          delivered>>

mainVars == <<pc, request, root, removed, before, previous, commands>>
notifyVars == <<npc, event, values, batch>>

EmptyRegistry == [id \in {} |-> Watch(id, <<>>)]
Snapshot == [watches |-> watches, watcher |-> watcher, length |-> Len(stdout)]
NoSnapshot == [watches |-> EmptyRegistry, watcher |-> {}, length |-> 0]
NoCommand == [request |-> NoRequest, response |-> <<>>, before |-> NoSnapshot]

\* The process runs until the main thread returns or panics.
Running == pc \notin {"exited", "panicked"}

Init ==
    /\ watches = EmptyRegistry
    /\ watcher = {}
    /\ mutex = "none"
    /\ rx = <<>>
    /\ stdout = <<>>
    /\ pc = "read"
    /\ request = NoRequest
    /\ root = <<>>
    /\ removed = NoWatch
    /\ npc = "recv"
    /\ event = NoEvent
    /\ values = {}
    /\ inputs = 0
    /\ before = NoSnapshot
    /\ batch = 0
    /\ previous = NoCommand
    /\ commands = <<>>
    /\ delivered = <<>>

(***************************************************************************)
(* The OS source: notify's debouncer sends an event for paths that lie     *)
(* under a root it is subscribed to; Rescan and Error need no path.        *)
(***************************************************************************)
Subscribed(path) == \E r \in watcher : starts_with(path, r)

Deliver ==
    /\ Running
    /\ inputs < MaxInputs
    /\ \E e \in DeliveredEvents :
          /\ \A i \in 1..Len(e.paths) : Subscribed(e.paths[i])
          /\ rx' = Append(rx, e)
          /\ delivered' = Append(delivered, e)
    /\ inputs' = inputs + 1
    /\ UNCHANGED <<watches, watcher, mutex, stdout>>
    /\ UNCHANGED mainVars
    /\ UNCHANGED notifyVars

(***************************************************************************)
(* Supervisor::handle_requests: the command loop of the main thread.       *)
(***************************************************************************)
\* A well-formed line is read and decoded.
ReadLine ==
    /\ pc = "read"
    /\ inputs < MaxInputs
    /\ \E r \in Requests :
          /\ request' = r
          /\ commands' = Append(commands, [type |-> r.type, id |-> r.id])
    /\ pc' = "lock"
    /\ inputs' = inputs + 1
    /\ UNCHANGED <<watches, watcher, mutex, rx, stdout, root, removed,
                   before, previous, delivered>>
    /\ UNCHANGED notifyVars

\* A line that does not decode: from_str(..).unwrap() panics.
ReadMalformed ==
    /\ pc = "read"
    /\ inputs < MaxInputs
    /\ pc' = "panicked"
    /\ inputs' = inputs + 1
    /\ UNCHANGED <<watches, watcher, mutex, rx, stdout, request, root,
                   removed, before, previous, commands, delivered>>
    /\ UNCHANGED notifyVars

\* End of input: the loop ends, main returns and the process exits.
ReadEof ==
    /\ pc = "read"
    /\ pc' = "exited"
    /\ UNCHANGED <<watches, watcher, mutex, rx, stdout, request, root,
                   removed, inputs, before, previous, commands, delivered>>
    /\ UNCHANGED notifyVars

\* Variant: handle_request works on the registry without waiting for the
\* lock.
Lock_Unlocked ==
    /\ pc = "lock"
    /\ mutex' = "main"
    /\ before' = Snapshot
    /\ pc' = "match"
    /\ UNCHANGED <<watches, watcher, rx, stdout, request, root, removed,
                   inputs, previous, commands, delivered>>
    /\ UNCHANGED notifyVars

(***************************************************************************)
(* Supervisor::handle_request, one step per statement that changes the     *)
(* registry, the OS handle or the output.                                  *)
(***************************************************************************)
\* let mut watches = self.watches.lock().unwrap();
Lock ==
    /\ pc = "lock"
    /\ mutex = "none"
    /\ mutex' = "main"
    /\ before' = Snapshot
    /\ pc' = "match"
    /\ UNCHANGED <<watches, watcher, rx, stdout, request, root, removed,
                   inputs, previous, commands, delivered>>
    /\ UNCHANGED notifyVars

\* Variant: a Watch for a registered id is answered Ok.
WatchRegistered_Ok ==
    /\ pc = "match"
    /\ request.type = "watch"
    /\ request.id \in DOMAIN watches
    /\ stdout' = emit_json(stdout, ResponseOk(request.id))
    /\ pc' = "return"
    /\ UNCHANGED <<watches, watcher, mutex, rx, request, root, removed,
                   inputs, before, previous, commands, delivered>>
    /\ UNCHANGED notifyVars

\* Request::Watch, id already in the registry.
WatchRegistered ==
    /\ pc = "match"
    /\ request.type = "watch"
    /\ request.id \in DOMAIN watches
    /\ stdout' = emit_json(stdout,
                     ResponseError(request.id, AlreadyRegistered(request.id)))
    /\ pc' = "return"
    /\ UNCHANGED <<watches, watcher, mutex, rx, request, root, removed,
                   inputs, before, previous, commands, delivered>>
    /\ UNCHANGED notifyVars

\* Variant: the root is canonicalized before the id is looked up.
WatchCanonicalizeErr_BeforeLookup ==
    /\ pc = "match"
    /\ request.type = "watch"
    /\ ~canonicalize(request.root).ok
    /\ stdout' = emit_json(stdout,
                     ResponseError(request.id,
                                   canonicalize(request.root).description))
    /\ pc' = "return"
    /\ UNCHANGED <<watches, watcher, mutex, rx, request, root, removed,
                   inputs, before, previous, commands, delivered>>
    /\ UNCHANGED notifyVars

\* Request::Watch, fs::canonicalize fails.
WatchCanonicalizeErr ==
    /\ pc = "match"
    /\ request.type = "watch"
    /\ request.id \notin DOMAIN watches
    /\ ~canonicalize(request.root).ok
    /\ stdout' = emit_json(stdout,
                     ResponseError(request.id,
                                   canonicalize(request.root).description))
    /\ pc' = "return"
    /\ UNCHANGED <<watches, watcher, mutex, rx, request, root, removed,
                   inputs, before, previous, commands, delivered>>
    /\ UNCHANGED notifyVars

\* Request::Watch, self.watcher.watch(&root, Recursive) accepts the root.
WatchSubscribe ==
    /\ pc = "match"
    /\ request.type = "watch"
    /\ request.id \notin DOMAIN watches
    /\ canonicalize(request.root).ok
    /\ root' = canonicalize(request.root).path
    /\ watcher' = watcher_watch(watcher, canonicalize(request.root).path)
    /\ pc' = "insert"
    /\ UNCHANGED <<watches, mutex, rx, stdout, request, removed,
                   inputs, before, previous, commands, delivered>>
    /\ UNCHANGED notifyVars

\* Variant: the watch is inserted before the subscription is attempted and
\* stays in the registry when the subscription fails.
WatchSubscribeErr_Inserted ==
    /\ pc = "match"
    /\ request.type = "watch"
    /\ request.id \notin DOMAIN watches
    /\ canonicalize(request.root).ok
    /\ watches' = [id \in DOMAIN watches \cup {request.id} |->
                      IF id = request.id
                      THEN Watch(request.id, canonicalize(request.root).path)
                      ELSE watches[id]]
    /\ stdout' = emit_json(stdout, ResponseError(request.id, WatchFailed))
    /\ pc' = "return"
    /\ UNCHANGED <<watcher, mutex, rx, request, root, removed,
                   inputs, before, previous, commands, delivered>>
    /\ UNCHANGED notifyVars

\* Request::Watch, self.watcher.watch(&root, Recursive) rejects the root.
WatchSubscribeErr ==
    /\ pc = "match"
    /\ request.type = "watch"
    /\ request.id \notin DOMAIN watches
    /\ canonicalize(request.root).ok
    /\ stdout' = emit_json(stdout, ResponseError(request.id, WatchFailed))
    /\ pc' = "return"
    /\ UNCHANGED <<watches, watcher, mutex, rx, request, root, removed,
                   inputs, before, previous, commands, delivered>>
    /\ UNCHANGED notifyVars

\* watches.insert(id, Watch { id, root });
WatchInsert ==
    /\ pc = "insert"
    /\ watches' = [id \in DOMAIN watches \cup {request.id} |->
                      IF id = request.id THEN Watch(request.id, root)
                      ELSE watches[id]]
    /\ pc' = "ok"
    /\ UNCHANGED <<watcher, mutex, rx, stdout, request, root, removed,
                   inputs, before, previous, commands, delivered>>
    /\ UNCHANGED notifyVars

\* Variant: an Unwatch that finds no watch is answered with Ok.
UnwatchMissing_Ok ==
    /\ pc = "match"
    /\ request.type = "unwatch"
    /\ request.id \notin DOMAIN watches
    /\ stdout' = emit_json(stdout, ResponseOk(request.id))
    /\ pc' = "return"
    /\ UNCHANGED <<watches, watcher, mutex, rx, request, root, removed,
                   inputs, before, previous, commands, delivered>>
    /\ UNCHANGED notifyVars

\* Request::Unwatch, watches.remove(&id) finds no watch.
UnwatchMissing ==
    /\ pc = "match"
    /\ request.type = "unwatch"
    /\ request.id \notin DOMAIN watches
    /\ stdout' = emit_json(stdout,
                     ResponseError(request.id, NoWatchExists(request.id)))
    /\ pc' = "return"
    /\ UNCHANGED <<watches, watcher, mutex, rx, request, root, removed,
                   inputs, before, previous, commands, delivered>>
    /\ UNCHANGED notifyVars

\* Variant: the watch is looked up and left in the registry.
UnwatchRemove_Kept ==
    /\ pc = "match"
    /\ request.type = "unwatch"
    /\ request.id \in DOMAIN watches
    /\ removed' = watches[request.id]
    /\ pc' = "unwatch"
    /\ UNCHANGED <<watches, watcher, mutex, rx, stdout, request, root,
                   inputs, before, previous, commands, delivered>>
    /\ UNCHANGED notifyVars

\* Request::Unwatch, watches.remove(&id) returns the watch.
UnwatchRemove ==
    /\ pc = "match"
    /\ request.type = "unwatch"
    /\ request.id \in DOMAIN watches
    /\ removed' = watches[request.id]
    /\ watches' = [id \in DOMAIN watches \ {request.id} |-> watches[id]]
    /\ pc' = "unwatch"
    /\ UNCHANGED <<watcher, mutex, rx, stdout, request, root,
                   inputs, before, previous, commands, delivered>>
    /\ UNCHANGED notifyVars

\* self.watcher.unwatch(&watch.root).unwrap(), the root is subscribed.
UnwatchUnsubscribe ==
    /\ pc = "unwatch"
    /\ watcher_unwatch(watcher, removed.root).ok
    /\ watcher' = watcher_unwatch(watcher, removed.root).watcher
    /\ pc' = "ok"
    /\ UNCHANGED <<watches, mutex, rx, stdout, request, root, removed,
                   inputs, before, previous, commands, delivered>>
    /\ UNCHANGED notifyVars

\* self.watcher.unwatch(&watch.root).unwrap(), the root is not subscribed:
\* unwatch returns an error and unwrap panics with the lock held.
UnwatchPanic ==
    /\ pc = "unwatch"
    /\ ~watcher_unwatch(watcher, removed.root).ok
    /\ pc' = "panicked"
    /\ UNCHANGED <<watches, watcher, mutex, rx, stdout, request, root,
                   removed, inputs, before, previous, commands, delivered>>
    /\ UNCHANGED notifyVars

\* emit_json(Response::Ok { id });
EmitOk ==
    /\ pc = "ok"
    /\ stdout' = emit_json(stdout, ResponseOk(request.id))
    /\ pc' = "return"
    /\ UNCHANGED <<watches, watcher, mutex, rx, request, root, removed,
                   inputs, before, previous, commands, delivered>>
    /\ UNCHANGED notifyVars

\* The lines this command has written since it took the lock.
Response == SubSeq(stdout, before.length + 1, Len(stdout))

\* Variant: the guard outlives handle_request, the lock stays with the loop.
Return_Held ==
    /\ pc = "return"
    /\ previous' = [request |-> request, response |-> Response,
                    before |-> [before EXCEPT !.length = 0]]
    /\ request' = NoRequest
    /\ root' = <<>>
    /\ removed' = NoWatch
    /\ before' = NoSnapshot
    /\ pc' = "read"
    /\ UNCHANGED <<watches, watcher, mutex, rx, stdout, inputs, commands,
                   delivered>>
    /\ UNCHANGED notifyVars

\* handle_request returns: the guard is dropped and the lock released.
Return ==
    /\ pc = "return"
    /\ mutex' = "none"
    /\ previous' = [request |-> request, response |-> Response,
                    before |-> [before EXCEPT !.length = 0]]
    /\ request' = NoRequest
    /\ root' = <<>>
    /\ removed' = NoWatch
    /\ before' = NoSnapshot
    /\ pc' = "read"
    /\ UNCHANGED <<watches, watcher, rx, stdout, inputs, commands, delivered>>
    /\ UNCHANGED notifyVars

handle_request ==
    \/ Lock
    \/ WatchRegistered
    \/ WatchCanonicalizeErr
    \/ WatchSubscribe
    \/ WatchSubscribeErr
    \/ WatchInsert
    \/ UnwatchMissing
    \/ UnwatchRemove
    \/ UnwatchUnsubscribe
    \/ UnwatchPanic
    \/ EmitOk
    \/ Return

handle_requests == ReadLine \/ ReadMalformed \/ ReadEof \/ handle_request

(***************************************************************************)
(* Watch::notify: the events one watch emits for one raw event.            *)
(***************************************************************************)
\* Variant: a created path is reported without the test against the root.
WatchNotify_Unfiltered(w, e) ==
    CASE e.kind = "Create" -> <<created(w.id, e.paths[1])>>
      [] e.kind = "Write" ->
            IF starts_with(e.paths[1], w.root)
            THEN <<modified(w.id, e.paths[1])>> ELSE <<>>
      [] e.kind = "Remove" ->
            IF starts_with(e.paths[1], w.root)
            THEN <<deleted(w.id, e.paths[1])>> ELSE <<>>
      [] e.kind = "Rename" ->
            LET old == starts_with(e.paths[1], w.root)
                new == starts_with(e.paths[2], w.root)
            IN  CASE old /\ new   -> <<renamed(w.id, e.paths[1], e.paths[2])>>
                  [] old /\ ~new  -> <<deleted(w.id, e.paths[1])>>
                  [] ~old /\ new  -> <<created(w.id, e.paths[2])>>
                  [] OTHER        -> <<>>
      [] OTHER -> <<>>

\* Variant: the two arms of a rename that crosses the root are exchanged.
WatchNotify_CrossedArms(w, e) ==
    CASE e.kind = "Create" ->
            IF starts_with(e.paths[1], w.root)
            THEN <<created(w.id, e.paths[1])>> ELSE <<>>
      [] e.kind = "Write" ->
            IF starts_with(e.paths[1], w.root)
            THEN <<modified(w.id, e.paths[1])>> ELSE <<>>
      [] e.kind = "Remove" ->
            IF starts_with(e.paths[1], w.root)
            THEN <<deleted(w.id, e.paths[1])>> ELSE <<>>
      [] e.kind = "Rename" ->
            LET old == starts_with(e.paths[1], w.root)
                new == starts_with(e.paths[2], w.root)
            IN  CASE old /\ new   -> <<renamed(w.id, e.paths[1], e.paths[2])>>
                  [] old /\ ~new  -> <<created(w.id, e.paths[2])>>
                  [] ~old /\ new  -> <<deleted(w.id, e.paths[1])>>
                  [] OTHER        -> <<>>
      [] OTHER -> <<>>

\* Variant: a rename inside the root is reported as a removal and a creation.
WatchNotify_RenameAsPair(w, e) ==
    CASE e.kind = "Create" ->
            IF starts_with(e.paths[1], w.root)
            THEN <<created(w.id, e.paths[1])>> ELSE <<>>
      [] e.kind = "Write" ->
            IF starts_with(e.paths[1], w.root)
            THEN <<modified(w.id, e.paths[1])>> ELSE <<>>
      [] e.kind = "Remove" ->
            IF starts_with(e.paths[1], w.root)
            THEN <<deleted(w.id, e.paths[1])>> ELSE <<>>
      [] e.kind = "Rename" ->
            LET old == starts_with(e.paths[1], w.root)
                new == starts_with(e.paths[2], w.root)
            IN  CASE old /\ new   -> <<deleted(w.id, e.paths[1]),
                                       created(w.id, e.paths[2])>>
                  [] old /\ ~new  -> <<deleted(w.id, e.paths[1])>>
                  [] ~old /\ new  -> <<created(w.id, e.paths[2])>>
                  [] OTHER        -> <<>>
      [] OTHER -> <<>>

\* Variant: a change of permissions is reported as a modification.
WatchNotify_ChmodModified(w, e) ==
    CASE e.kind = "Create" ->
            IF starts_with(e.paths[1], w.root)
            THEN <<created(w.id, e.paths[1])>> ELSE <<>>
      [] e.kind \in {"Write", "Chmod"} ->
            IF starts_with(e.paths[1], w.root)
            THEN <<modified(w.id, e.paths[1])>> ELSE <<>>
      [] e.kind = "Remove" ->
            IF starts_with(e.paths[1], w.root)
            THEN <<deleted(w.id, e.paths[1])>> ELSE <<>>
      [] e.kind = "Rename" ->
            LET old == starts_with(e.paths[1], w.root)
                new == starts_with(e.paths[2], w.root)
            IN  CASE old /\ new   -> <<renamed(w.id, e.paths[1], e.paths[2])>>
                  [] old /\ ~new  -> <<deleted(w.id, e.paths[1])>>
                  [] ~old /\ new  -> <<created(w.id, e.paths[2])>>
                  [] OTHER        -> <<>>
      [] OTHER -> <<>>

WatchNotify(watch, e) ==
    CASE e.kind = "Create" ->
            IF starts_with(e.paths[1], watch.root)
            THEN <<created(watch.id, e.paths[1])>> ELSE <<>>
      [] e.kind = "Write" ->
            IF starts_with(e.paths[1], watch.root)
            THEN <<modified(watch.id, e.paths[1])>> ELSE <<>>
      [] e.kind = "Remove" ->
            IF starts_with(e.paths[1], watch.root)
            THEN <<deleted(watch.id, e.paths[1])>> ELSE <<>>
      [] e.kind = "Rename" ->
            LET old == starts_with(e.paths[1], watch.root)
                new == starts_with(e.paths[2], watch.root)
            IN  CASE old /\ new   -> <<renamed(watch.id, e.paths[1], e.paths[2])>>
                  [] old /\ ~new  -> <<deleted(watch.id, e.paths[1])>>
                  [] ~old /\ new  -> <<created(watch.id, e.paths[2])>>
                  [] OTHER        -> <<>>
      [] OTHER -> <<>>

\* Variant: the newest raw event is taken off the channel first.
Receive_Last ==
    /\ Running
    /\ npc = "recv"
    /\ rx # <<>>
    /\ event' = rx[Len(rx)]
    /\ rx' = SubSeq(rx, 1, Len(rx) - 1)
    /\ npc' = "lock"
    /\ UNCHANGED <<watches, watcher, mutex, stdout, inputs, values, batch>>
    /\ UNCHANGED mainVars
    /\ UNCHANGED delivered

(***************************************************************************)
(* The notification thread: for event in rx { Self::notify(..) }.          *)
(***************************************************************************)
\* The next raw event is taken off the channel.
Receive ==
    /\ Running
    /\ npc = "recv"
    /\ rx # <<>>
    /\ event' = Head(rx)
    /\ rx' = Tail(rx)
    /\ npc' = "lock"
    /\ UNCHANGED <<watches, watcher, mutex, stdout, inputs, values, batch>>
    /\ UNCHANGED mainVars
    /\ UNCHANGED delivered

\* Variant: the loop reads the registry without waiting for the lock.
NotifyLock_Unlocked ==
    /\ Running
    /\ npc = "lock"
    /\ mutex' = mutex
    /\ values' = {watches[id] : id \in DOMAIN watches}
    /\ batch' = Len(stdout)
    /\ npc' = "values"
    /\ UNCHANGED <<watches, watcher, rx, stdout, inputs, event>>
    /\ UNCHANGED mainVars
    /\ UNCHANGED delivered

\* Variant: the loop starts at the second watch of the map.
NotifyLock_SkipsOne ==
    /\ Running
    /\ npc = "lock"
    /\ mutex = "none"
    /\ mutex' = "notify"
    /\ LET all == {watches[id] : id \in DOMAIN watches}
       IN  values' \in IF all = {} THEN {{}} ELSE {all \ {w} : w \in all}
    /\ batch' = Len(stdout)
    /\ npc' = "values"
    /\ UNCHANGED <<watches, watcher, rx, stdout, inputs, event>>
    /\ UNCHANGED mainVars
    /\ UNCHANGED delivered

\* watches.lock().unwrap().values(): the lock is taken for the whole loop.
NotifyLock ==
    /\ Running
    /\ npc = "lock"
    /\ mutex = "none"
    /\ mutex' = "notify"
    /\ values' = {watches[id] : id \in DOMAIN watches}
    /\ batch' = Len(stdout)
    /\ npc' = "values"
    /\ UNCHANGED <<watches, watcher, rx, stdout, inputs, event>>
    /\ UNCHANGED mainVars
    /\ UNCHANGED delivered

\* Variant: the loop ends at the first watch that emits an event.
NotifyWatch_First ==
    /\ Running
    /\ npc = "values"
    /\ \E w \in values :
          /\ stdout' = stdout \o WatchNotify(w, event)
          /\ values' = IF WatchNotify(w, event) # <<>> THEN {}
                       ELSE values \ {w}
    /\ UNCHANGED <<watches, watcher, mutex, rx, inputs, npc, event, batch>>
    /\ UNCHANGED mainVars
    /\ UNCHANGED delivered

\* Variant: the lock is taken for each watch and released after it.
NotifyWatch_Released ==
    /\ Running
    /\ npc = "values"
    /\ mutex \in {"none", "notify"}
    /\ \E watch \in values :
          /\ stdout' = stdout \o WatchNotify(watch, event)
          /\ values' = values \ {watch}
    /\ mutex' = "none"
    /\ UNCHANGED <<watches, watcher, rx, inputs, npc, event, batch>>
    /\ UNCHANGED mainVars
    /\ UNCHANGED delivered

\* watch.notify(&event) for the next watch, in the order of the hash map.
NotifyWatch ==
    /\ Running
    /\ npc = "values"
    /\ \E watch \in values :
          /\ stdout' = stdout \o WatchNotify(watch, event)
          /\ values' = values \ {watch}
    /\ UNCHANGED <<watches, watcher, mutex, rx, inputs, npc, event, batch>>
    /\ UNCHANGED mainVars
    /\ UNCHANGED delivered

\* The loop is over: the guard is dropped and the lock released.
NotifyUnlock ==
    /\ Running
    /\ npc = "values"
    /\ values = {}
    /\ mutex' = "none"
    /\ event' = NoEvent
    /\ batch' = 0
    /\ npc' = "recv"
    /\ UNCHANGED <<watches, watcher, rx, stdout, inputs, values>>
    /\ UNCHANGED mainVars
    /\ UNCHANGED delivered

notify == NotifyLock \/ NotifyWatch \/ NotifyUnlock

Next == Deliver \/ handle_requests \/ Receive \/ notify

Spec == Init /\ [][Next]_vars

(***************************************************************************)
(* Dispatch of raw events against one registry: the registry holds any     *)
(* watches the commands can have registered, the command loop waits for    *)
(* input that does not come, and any one or two raw events are in the      *)
(* channel.                                                                *)
(***************************************************************************)
Registries ==
    UNION {[ids -> Directories] : ids \in SUBSET WatchIds}

InitDispatch ==
    /\ \E roots \in Registries :
          /\ watches = [id \in DOMAIN roots |-> Watch(id, roots[id])]
          /\ watcher = {roots[id] : id \in DOMAIN roots}
    /\ mutex = "none"
    /\ rx \in {<<e>> : e \in RawEvents}
                \cup {<<e[1], e[2]>> : e \in RawEvents \X RawEvents}
    /\ stdout = <<>>
    /\ pc = "read"
    /\ request = NoRequest
    /\ root = <<>>
    /\ removed = NoWatch
    /\ npc = "recv"
    /\ event = NoEvent
    /\ values = {}
    /\ inputs = MaxInputs
    /\ before = NoSnapshot
    /\ batch = 0
    /\ previous = NoCommand
    /\ commands = <<>>
    /\ delivered = rx

NextDispatch == Receive \/ notify

SpecDispatch == InitDispatch /\ [][NextDispatch]_vars

(***************************************************************************)
(* Properties.                                                             *)
(***************************************************************************)
\* The roots of the watches of a registry.
Roots(registry) == {registry[id].root : id \in DOMAIN registry}

\* The command loop is handling a command and holds the lock.
Handling == pc \in {"match", "insert", "unwatch", "ok", "return"}

\* C1: whenever no command is being executed, the roots of the registered
\* watches are exactly the roots subscribed with the OS watch handle.
C1_RegistryLockstep ==
    pc \in {"read", "exited"} => Roots(watches) = watcher

\* C2: a Watch(id, root) with a valid root and an id that is not active,
\* followed at once by Unwatch(id), answers Ok twice and leaves the registry
\* and the OS subscriptions as they were before the pair.
AfterWatchUnwatchPair ==
    /\ pc \in {"return", "panicked"}
    /\ request.type = "unwatch"
    /\ previous.request.type = "watch"
    /\ previous.request.id = request.id
    /\ previous.request.id \notin DOMAIN previous.before.watches
    /\ canonicalize(previous.request.root).ok
    /\ previous.response # <<ResponseError(request.id, WatchFailed)>>

C2_WatchUnwatchRestores ==
    AfterWatchUnwatchPair =>
        /\ previous.response = <<ResponseOk(request.id)>>
        /\ Response = <<ResponseOk(request.id)>>
        /\ watches = previous.before.watches
        /\ watcher = previous.before.watcher

\* C3: a Watch whose id is already active answers with the one error
\* "already registered", whatever its root, and changes neither the registry
\* nor the OS subscriptions: it never reaches canonicalization or subscription.
DuplicateWatch ==
    /\ Handling
    /\ request.type = "watch"
    /\ request.id \in DOMAIN before.watches

C3_DuplicateWatchRejected ==
    DuplicateWatch =>
        /\ pc \in {"match", "return"}
        /\ watches = before.watches
        /\ watcher = before.watcher
        /\ Response = IF pc = "match" THEN <<>>
                      ELSE <<ResponseError(request.id,
                                           AlreadyRegistered(request.id))>>

C3_Witness ==
    /\ DuplicateWatch
    /\ pc = "return"
    /\ ~canonicalize(request.root).ok
    /\ Response # <<>>

\* C4: an Unwatch whose id is not in the registry answers with the one error
\* "no watch exists", never reaches the OS unsubscribe call, and changes
\* neither the registry nor the OS subscriptions.
UnknownUnwatch ==
    /\ Handling
    /\ request.type = "unwatch"
    /\ request.id \notin DOMAIN before.watches

C4_UnknownUnwatchRejected ==
    UnknownUnwatch =>
        /\ pc \in {"match", "return"}
        /\ watches = before.watches
        /\ watcher = before.watcher
        /\ Response = IF pc = "match" THEN <<>>
                      ELSE <<ResponseError(request.id,
                                           NoWatchExists(request.id))>>

C4_Witness ==
    /\ UnknownUnwatch
    /\ pc = "return"
    /\ previous.request = request
    /\ previous.response = <<ResponseOk(request.id)>>
    /\ Response # <<>>

\* C5: a Watch that fails at canonicalization or at the OS subscription
\* answers with exactly one error carrying its id, inserts no watch, leaves
\* the registry and the OS subscriptions unchanged and the process running;
\* a root that cannot be canonicalized always fails this way.
FreshWatchDone ==
    /\ pc = "return"
    /\ request.type = "watch"
    /\ request.id \notin DOMAIN before.watches

WatchFailure ==
    {ResponseError(request.id, description) :
        description \in {"entity not found", WatchFailed}}

C5_FailedWatchNoMutation ==
    /\ FreshWatchDone /\ Response # <<ResponseOk(request.id)>> =>
          /\ Len(Response) = 1
          /\ Response[1] \in WatchFailure
          /\ request.id \notin DOMAIN watches
          /\ watches = before.watches
          /\ watcher = before.watcher
          /\ Running
    /\ FreshWatchDone /\ ~canonicalize(request.root).ok =>
          Response = <<ResponseError(request.id, "entity not found")>>
    /\ pc = "insert" => canonicalize(request.root).ok

C5_Witness ==
    /\ FreshWatchDone
    /\ Response = <<ResponseError(request.id, WatchFailed)>>
    /\ watches # EmptyRegistry
    /\ canonicalize(request.root).path \notin watcher

\* Path Filter of the specification: candidate equals root or is a
\* descendant of it, component by component.
IsUnder(r, candidate) ==
    /\ Len(r) <= Len(candidate)
    /\ SubSeq(candidate, 1, Len(r)) = r

\* A line of the output is a semantic event (and not a response).
IsEvent(line) == "action" \in DOMAIN line

\* The lines written since the current dispatch took the lock, and the
\* events among them that are tagged with one watch id.
Batch == SubSeq(stdout, batch + 1, Len(stdout))
EventsOf(lines, id) ==
    LET Tagged(line) == IsEvent(line) /\ line.watchId = id
    IN  SelectSeq(lines, Tagged)

\* The dispatch of the raw event has visited every watch of the registry.
Dispatched == npc = "values" /\ values = {}

\* C6: for a raw Rename(old, new), every watch gets exactly one Renamed
\* (both paths under its root), one Deleted of old (only old under it), one
\* Created of new (only new under it), or nothing (neither under it).
C6_RenameClassification ==
    Dispatched /\ event.kind = "Rename" =>
        \A id \in DOMAIN watches :
            LET w == watches[id]
                old == event.paths[1]
                new == event.paths[2]
            IN  EventsOf(Batch, id) =
                    IF IsUnder(w.root, old) /\ IsUnder(w.root, new)
                    THEN <<[action |-> "renamed", watchId |-> id,
                            path |-> new, oldPath |-> old]>>
                    ELSE IF IsUnder(w.root, old)
                    THEN <<[action |-> "deleted", watchId |-> id,
                            path |-> old]>>
                    ELSE IF IsUnder(w.root, new)
                    THEN <<[action |-> "created", watchId |-> id,
                            path |-> new]>>
                    ELSE <<>>

\* A rename out of /a/sub into /a, seen by a watch on /a (Renamed) and by a
\* watch on /a/sub (Deleted).
C6_Witness ==
    /\ Dispatched
    /\ event = DebouncedEvent("Rename", <<<<"a", "sub", "f">>, <<"a", "x">>>>)
    /\ Roots(watches) = {<<"a">>, <<"a", "sub">>}
    /\ Len(Batch) = 2

\* Some path carried by the raw event lies under the root.
CarriesPathUnder(e, r) == \E i \in 1..Len(e.paths) : IsUnder(r, e.paths[i])

MatchingAction(kind) ==
    CASE kind = "Create" -> "created"
      [] kind = "Write"  -> "modified"
      [] kind = "Remove" -> "deleted"

C8_OneEventPerCoveringWatch ==
    Dispatched /\ event.kind \in PrimitiveKinds =>
        LET p == event.paths[1]
            covering == {id \in DOMAIN watches : IsUnder(watches[id].root, p)}
        IN  /\ Len(Batch) = Cardinality(covering)
            /\ \A id \in covering :
                  EventsOf(Batch, id) =
                      <<[action |-> MatchingAction(event.kind),
                         watchId |-> id, path |-> p]>>
            /\ \A k \in 1..Len(Batch) :
                  IsEvent(Batch[k]) /\ Batch[k].watchId \in covering

\* Watches on /a and /a/sub both get their Created for /a/sub/f.
C8_Witness ==
    /\ Dispatched
    /\ event = DebouncedEvent("Create", <<<<"a", "sub", "f">>>>)
    /\ Roots(watches) = {<<"a">>, <<"a", "sub">>}
    /\ Len(Batch) = 2

\* The step writes an event tagged with the id to the output.
EmitsEventOf(id) ==
    \E k \in (Len(stdout) + 1)..Len(stdout') :
        IsEvent(stdout'[k]) /\ stdout'[k].watchId = id

\* The Ok responses written for the id so far: those of its successful
\* Watch and Unwatch commands, in turn.
Oks(id) ==
    LET IsOk(line) == line = ResponseOk(id)
    IN  Len(SelectSeq(stdout, IsOk))

\* A Watch for an id that is not active has been read and has not yet
\* written its response.
WatchPending(id) ==
    /\ request.type = "watch"
    /\ request.id = id
    /\ \/ pc = "lock" /\ id \notin DOMAIN watches
       \/ pc \in {"match", "insert", "ok"} /\ id \notin DOMAIN before.watches

\* C9: no event tagged with an id is written before the first Ok for that
\* id, nor between the start of a Watch command that registers the id and
\* the Ok of that command.
C9_OkBeforeEvents ==
    [][\A id \in WatchIds :
          EmitsEventOf(id) => Oks(id) >= 1 /\ ~WatchPending(id)]_vars

\* An event is on the output right after the Ok of its watch.
C9_Witness ==
    \E j \in 2..Len(stdout) :
        /\ IsEvent(stdout[j])
        /\ stdout[j - 1] = ResponseOk(stdout[j].watchId)

\* C10: once the Ok of a successful Unwatch(id) is written, no event tagged
\* with id is written until a later Watch(id) has succeeded.
C10_NoEventAfterUnwatch ==
    [][\A id \in WatchIds :
          Oks(id) > 0 /\ Oks(id) % 2 = 0 => ~EmitsEventOf(id)]_vars

\* A raw event under the former root of watch 1, delivered while 1 was
\* subscribed, has been dispatched after the Ok of Unwatch(1): no event.
C10_Witness ==
    /\ Dispatched
    /\ event = DebouncedEvent("Create", <<<<"a", "x">>>>)
    /\ Oks(1) = 2
    /\ 1 \notin DOMAIN watches
    /\ stdout[batch] = ResponseOk(1)
    /\ Batch = <<>>

\* The main thread is blocked on stdin, or has left the loop.
ReadingStdin == pc \in {"read", "exited"}

\* The notification thread is blocked on the channel of raw events.
WaitingForEvent == npc = "recv"

\* The step writes a line to the output.
Writes == stdout' # stdout

\* The lock is free of the thread that reads stdin and of the thread that
\* waits for a raw event.
LockFreeWhileReading ==
    /\ ReadingStdin => mutex # "main"
    /\ WaitingForEvent => mutex # "notify"

\* C11 as stated: the registry lock is not held while stdin is read, nor
\* while the notification thread waits for a raw event, nor while a
\* response or event line is written to the output.
C11_LockNeverHeldDuringIO ==
    /\ []LockFreeWhileReading
    /\ [][Writes => mutex = "none" /\ mutex' = "none"]_vars

\* C11: the registry lock is not held while stdin is read nor while the
\* notification thread waits for a raw event; every response and every
\* event line is written by the thread that holds the lock, before it
\* releases it.
C11_LockHeldOnlyForWrites ==
    /\ []LockFreeWhileReading
    /\ [][Writes => /\ mutex # "none"
                    /\ mutex' = mutex
                    /\ mutex = "main" => Handling
                    /\ mutex = "notify" => npc = "values"]_vars

\* The main thread is blocked on stdin while the notification thread, in
\* the middle of a pass, has written an event with the lock held.
C11_Witness ==
    /\ pc = "read"
    /\ npc = "values"
    /\ mutex = "notify"
    /\ values # {}
    /\ Batch # <<>>

\* The responses written so far, in order, without the events among them.
Responses ==
    LET IsResponse(line) == ~IsEvent(line)
    IN  SelectSeq(stdout, IsResponse)

\* The ids that are active after the first k of the responses: those with
\* an odd number of Ok responses, a successful Watch and a successful
\* Unwatch of an id taking turns.
ActiveAfter(responses, k) ==
    {id \in WatchIds :
        Cardinality({j \in 1..k : responses[j] = ResponseOk(id)}) % 2 = 1}

\* The responses a command of a type for an id may get, by whether the id
\* is active in the registry.
Answers ==
    [type \in {"watch", "unwatch"}, id \in WatchIds, active \in BOOLEAN |->
        IF type = "watch"
        THEN IF active
             THEN {ResponseError(id, AlreadyRegistered(id))}
             ELSE {ResponseOk(id), ResponseError(id, WatchFailed),
                   ResponseError(id, canonicalize("/missing").description)}
        ELSE IF active
             THEN {ResponseOk(id)}
             ELSE {ResponseError(id, NoWatchExists(id))}]

\* C12: the commands are answered in the order they are read, one at a
\* time: whenever a command has written its response, the k-th response on
\* the output is, for every k, for the k-th command read, and it is the
\* answer of the registry left by the first k-1 commands; a command is
\* read only when every earlier one has its response, and it finds the
\* registry those responses tell.
C12_ResponsesInInputOrder ==
    /\ pc = "return" =>
          LET responses == Responses
          IN  /\ Len(responses) = Len(commands)
              /\ \A k \in 1..Len(responses) :
                    responses[k] \in
                        Answers[commands[k].type, commands[k].id,
                                commands[k].id
                                    \in ActiveAfter(responses, k - 1)]
    /\ pc = "read" =>
          /\ Len(Responses) = Len(commands)
          /\ DOMAIN watches = ActiveAfter(Responses, Len(commands))
    /\ pc \in {"lock", "match", "insert", "unwatch", "ok"} =>
          Len(Responses) + 1 = Len(commands)

\* Three commands have been answered in turn, the third with an error that
\* depends on the first, and an event lies between the responses.
C12_Witness ==
    /\ pc = "read"
    /\ Len(commands) = 3
    /\ commands[1] = [type |-> "watch", id |-> 1]
    /\ commands[2] = [type |-> "unwatch", id |-> 2]
    /\ commands[3] = [type |-> "watch", id |-> 1]
    /\ Responses[3] = ResponseError(1, AlreadyRegistered(1))
    /\ Len(stdout) = 4
    /\ IsEvent(stdout[2])

\* The raw events that are received and not yet dispatched, oldest first.
Pending == (IF npc = "recv" THEN <<>> ELSE <<event>>) \o rx

\* The events one raw event yields from the watches of the registry.
EventsFrom(e) ==
    {WatchNotify(watches[id], e)[1] :
        id \in {i \in DOMAIN watches : WatchNotify(watches[i], e) # <<>>}}

\* The lines are the events of one raw event, each once, in any order.
IsDispatchOf(lines, e) ==
    /\ Len(lines) = Cardinality(EventsFrom(e))
    /\ {lines[k] : k \in 1..Len(lines)} = EventsFrom(e)

\* The lines are the dispatches of the raw events, one after the other.
RECURSIVE InDeliveryOrder(_, _)
InDeliveryOrder(lines, events) ==
    IF events = <<>>
    THEN lines = <<>>
    ELSE \E n \in 0..Len(lines) :
            /\ IsDispatchOf(SubSeq(lines, 1, n), Head(events))
            /\ InDeliveryOrder(SubSeq(lines, n + 1, Len(lines)),
                               Tail(events))

\* C13: raw events are dispatched in the order they are delivered, each
\* exactly once: the events still to dispatch are the newest delivered, in
\* delivery order, and whenever the notification thread waits, the output
\* is the events of the first delivered raw event, then those of the
\* second, and so on, with nothing dropped, repeated or merged.
C13_DispatchInDeliveryOrder ==
    /\ Len(Pending) <= Len(delivered)
    /\ Pending = SubSeq(delivered, Len(delivered) - Len(Pending) + 1,
                        Len(delivered))
    /\ npc = "recv" =>
          InDeliveryOrder(stdout,
              SubSeq(delivered, 1, Len(delivered) - Len(rx)))

\* Two different raw events have been dispatched against two watches of
\* one root, and each has yielded its two events.
C13_Witness ==
    /\ npc = "recv"
    /\ rx = <<>>
    /\ Len(delivered) = 2
    /\ delivered[1].kind = "Remove"
    /\ delivered[2].kind = "Create"
    /\ Len(stdout) = 4
    /\ stdout[2].action = "deleted"
    /\ stdout[3].action = "created"

\* C14: an Unwatch for an active id finds the root of the removed watch
\* subscribed with the OS handle, so the unsubscribe succeeds and the
\* command never ends in the panic of the unwrap.
C14_UnsubscribeSucceeds ==
    /\ pc = "unwatch" => removed.root \in watcher
    /\ ~(pc = "panicked" /\ request.type = "unwatch")

\* The notification thread is in its pass over the watches of the registry.
InPass == npc = "values"

\* C15: a classification pass and the execution of a command exclude each
\* other: no pass runs while a Watch is between its subscribe and its
\* insert or an Unwatch between its remove and its unsubscribe, nor during
\* any other part of handle_request, and the registry and the
\* subscriptions do not change while a pass runs, so the pass visits
\* watches of the registry only.
C15_PassExcludesCommand ==
    /\ [](InPass => /\ ~Handling
                    /\ mutex = "notify"
                    /\ \A watch \in values :
                          /\ watch.id \in DOMAIN watches
                          /\ watches[watch.id] = watch)
    /\ [][InPass => UNCHANGED <<watches, watcher>>]_vars

\* A Watch has subscribed its root and not yet inserted the watch, and a
\* raw event under that root is received and waits for the lock.
C15_Witness ==
    /\ pc = "insert"
    /\ mutex = "main"
    /\ npc = "lock"
    /\ starts_with(event.paths[1], root)

\* C16: the dispatch of one raw event writes at most one event per watch:
\* no watch gets both a Deleted and a Created for one Rename, and a Rename
\* with both paths under the root yields the single Renamed.
C16_AtMostOneEventPerWatch ==
    Dispatched =>
        /\ \A id \in WatchIds : Len(EventsOf(Batch, id)) <= 1
        /\ \A k \in 1..Len(Batch) : Batch[k].watchId \in DOMAIN watches
        /\ event.kind = "Rename" =>
              \A id \in DOMAIN watches :
                  IsUnder(watches[id].root, event.paths[1])
                      /\ IsUnder(watches[id].root, event.paths[2])
                  => \E k \in 1..Len(Batch) :
                        /\ Batch[k].watchId = id
                        /\ Batch[k].action = "renamed"

\* A Rename inside the root of the only watch has been dispatched: one
\* Renamed is on the output.
C16_Witness ==
    /\ Dispatched
    /\ event = DebouncedEvent("Rename", <<<<"a", "x">>, <<"a", "y">>>>)
    /\ DOMAIN watches = {1}
    /\ watches[1].root = <<"a">>
    /\ Len(Batch) = 1
    /\ Batch[1].action = "renamed"

\* The place on the output of the Ok of the Watch that inserted the active
\* watch: the last Ok for the id.
InsertedAt(id) ==
    CHOOSE k \in 1..Len(stdout) :
        /\ stdout[k] = ResponseOk(id)
        /\ \A j \in (k + 1)..Len(stdout) : stdout[j] # ResponseOk(id)

\* C17 as stated: the events one raw event yields for several watches are
\* written in the order in which the watches were inserted in the registry.
C17_EventsInInsertionOrder ==
    Dispatched =>
        \A i, j \in 1..Len(Batch) :
            i < j => InsertedAt(Batch[i].watchId) < InsertedAt(Batch[j].watchId)

\* C17: the events one raw event yields for several watches are written
\* one per relevant watch, each once, in the order in which the hash map
\* happens to iterate, whatever the order of insertion.
C17_EventsInSomeOrder ==
    Dispatched => IsDispatchOf(Batch, event)

\* Watch 1 was inserted before watch 2, and the event of watch 2 is written
\* before the event of watch 1.
C17_Witness ==
    /\ Dispatched
    /\ DOMAIN watches = {1, 2}
    /\ InsertedAt(1) < InsertedAt(2)
    /\ Len(Batch) = 2
    /\ Batch[1].watchId = 2
    /\ Batch[2].watchId = 1

\* The raw event is of an informational variant: NoticeWrite, NoticeRemove,
\* Chmod, Rescan or Error.
Informational(e) == e.kind \in NoticeKinds \cup {"Rescan", "Error"}

\* C18: the dispatch of an informational raw event writes nothing to the
\* output and changes neither the registry nor the subscriptions, whatever
\* path the raw event carries and whatever the registry holds.
C18_InformationalIgnored ==
    [][Informational(event) \/ Informational(event')
          => UNCHANGED <<stdout, watches, watcher>>]_vars

\* A Chmod of a path under the roots of both watches has been dispatched
\* and nothing is written.
C18_Witness ==
    /\ Dispatched
    /\ event = DebouncedEvent("Chmod", <<<<"a", "sub", "f">>>>)
    /\ Roots(watches) = {<<"a">>, <<"a", "sub">>}
    /\ Batch = <<>>

\* C19: what one critical section writes is contiguous on the output: from
\* the start of a pass to its end the output grows by events of the raw
\* event only, with no response among them, and from the start of a
\* command to its end the output grows by the one response only, with no
\* event before or after it.
C19_OutputContiguous ==
    /\ InPass =>
          \A k \in 1..Len(Batch) :
              /\ IsEvent(Batch[k])
              /\ WatchNotify(watches[Batch[k].watchId], event) = <<Batch[k]>>
    /\ Handling =>
          /\ Len(Response) <= 1
          /\ \A k \in 1..Len(Response) : ~IsEvent(Response[k])
          /\ pc = "return" => Len(Response) = 1

\* The two events of one raw event are on the output, one after the other,
\* while a command that was read during the pass waits for the lock.
C19_Witness ==
    /\ Dispatched
    /\ Len(Batch) = 2
    /\ pc = "lock"
    /\ request.type = "unwatch"
    /\ request.id = Batch[1].watchId

(***************************************************************************)
(* The supervisor under fair scheduling: a thread that can take a step     *)
(* takes one, and a thread that waits for the registry lock gets it when   *)
(* it is free again and again.  Reading stdin and the OS source are not    *)
(* fair: no line and no raw event need ever come.                          *)
(***************************************************************************)
FairSpec ==
    /\ Spec
    /\ WF_vars(handle_request)
    /\ SF_vars(Lock)
    /\ WF_vars(Receive)
    /\ WF_vars(notify)
    /\ SF_vars(NotifyLock)

\* The input stays open and every line read is well formed: the command
\* loop neither reaches the end of stdin nor fails to decode a line.
InputOpen == pc # "exited" /\ ~(pc = "panicked" /\ request = NoRequest)

\* C20: under fair scheduling, while the input stays open and well formed,
\* every command that is read gets its response and every raw event that
\* is delivered is dispatched.
C20_EventuallyServed ==
    []InputOpen =>
        /\ (pc = "lock") ~> (pc = "return")
        /\ (rx # <<>>) ~> (npc = "lock")
        /\ (npc = "lock") ~> Dispatched

====
